---- MODULE Spec2Model ----
(***************************************************************************)
(* Model of win32ctypes/pywin32/win32cred.py: CredWrite, CredRead,         *)
(* CredDelete, CredEnumerate, _cred_as_dict and _make_blob, together with  *)
(* the native credential store they drive through _advapi32.               *)
(*                                                                         *)
(* Python values are tagged records, text is a sequence of code points,    *)
(* a wide string is a sequence of 16-bit units, a byte string a sequence   *)
(* of 0..255.  A NULL pointer is the empty sequence; a non-NULL LPWSTR     *)
(* always carries its terminating 0 unit, so it is never empty.            *)
(***************************************************************************)
EXTENDS Integers, Sequences, FiniteSets, TLC

VARIABLES
    store,      \* the platform credential store: native records, in native order
    op,         \* name of the last API call ("" before the first one)
    args,       \* arguments of the last API call
    outcome,    \* how the last API call ended: a returned value or a raised error
    log,        \* native primitives and native-memory accesses of the last call
    faults      \* the decode and release failures that occurred in the last call

vars == <<store, op, args, outcome, log, faults>>

----------------------------------------------------------------------------
(* Bounds *)

MaxStore == 3        \* records the store may hold
MaxSecretLen == 2    \* characters of a secret in the codec specification

----------------------------------------------------------------------------
(* Constants of the program *)

CRED_TYPE_GENERIC == 1
CRED_PERSIST_ENTERPRISE == 3
SizeofWchar == 2     \* ctypes.sizeof(ctypes.c_wchar) on the target platform

SUPPORTED_CREDKEYS ==
    {"Type", "TargetName", "Persist", "UserName", "CredentialBlob", "Comment"}

IntKeys == {"Type", "Persist"}

----------------------------------------------------------------------------
(* Python values *)

PyNone == [t |-> "None"]
PyInt(n) == [t |-> "int", v |-> n]
PyStr(s) == [t |-> "str", v |-> s]
PyBytes(b) == [t |-> "bytes", v |-> b]
PyDict(d) == [t |-> "dict", v |-> d]
PyList(l) == [t |-> "list", v |-> l]

NULL == <<>>

----------------------------------------------------------------------------
(* Wide strings and byte buffers *)

RECURSIVE Utf16Units(_)
\* The wchar_t units of a text on a platform with 16-bit wchar_t: one unit
\* per BMP character, a surrogate pair otherwise.
Utf16Units(s) ==
    IF s = <<>> THEN <<>>
    ELSE LET c == Head(s)
             u == IF c > 65535
                  THEN << 55296 + ((c - 65536) \div 1024),
                          56320 + ((c - 65536) % 1024) >>
                  ELSE << c >>
         IN  u \o Utf16Units(Tail(s))

RECURSIVE UnitsToText(_)
\* Text of a sequence of units (no terminator inside).
UnitsToText(u) ==
    IF u = <<>> THEN <<>>
    ELSE IF Len(u) >= 2 /\ u[1] >= 55296 /\ u[1] < 56320
              /\ u[2] >= 56320 /\ u[2] < 57344
         THEN << 65536 + (u[1] - 55296) * 1024 + (u[2] - 56320) >>
                 \o UnitsToText(Tail(Tail(u)))
         ELSE << Head(u) >> \o UnitsToText(Tail(u))

RECURSIVE UpToNul(_)
\* The units of a NUL-terminated wide string before its first 0 unit.
UpToNul(u) ==
    IF u = <<>> \/ Head(u) = 0 THEN <<>>
    ELSE << Head(u) >> \o UpToNul(Tail(u))

RECURSIVE UnitsToBytes(_)
\* The memory of an array of 16-bit units, little endian.
UnitsToBytes(u) ==
    IF u = <<>> THEN <<>>
    ELSE << Head(u) % 256, Head(u) \div 256 >> \o UnitsToBytes(Tail(u))

\* ctypes.create_unicode_buffer(init): an array of wchar_t holding init
\* followed by a NUL unit.
create_unicode_buffer(init) == Utf16Units(init) \o << 0 >>

\* ctypes.sizeof of a wchar_t array.
sizeof(buf) == Len(buf) * SizeofWchar

\* Storing a Python str in a c_wchar_p field.
ToLPWSTR(s) == Utf16Units(s) \o << 0 >>

\* Reading a c_wchar_p field: None for NULL, else the text up to the NUL.
FromLPWSTR(p) == IF p = NULL THEN PyNone ELSE PyStr(UnitsToText(UpToNul(p)))

\* _common._PyBytes_FromStringAndSize(ptr, size): a copy of size bytes.
PyBytes_FromStringAndSize(ptr, size) == PyBytes(SubSeq(ptr, 1, size))

----------------------------------------------------------------------------
(* The native record and the codec *)

\* _advapi32.CREDENTIAL() after ctypes.memset(c_pcreds, 0, sizeof(c_creds)).
ZeroedCREDENTIAL ==
    [ Type |-> 0, TargetName |-> NULL, Persist |-> 0, UserName |-> NULL,
      Comment |-> NULL, CredentialBlobSize |-> 0, CredentialBlob |-> NULL ]

\* Decoding a byte under the system code page (Windows-1252): 0x81 has no
\* character (strict decoding fails there), 0x80 is the euro sign, the
\* ASCII and the 0xA0..0xFF ranges map to the same code point.
CodePageUndefined == {129, 141, 143, 144, 157}

CodePageChar(b) == IF b = 128 THEN 8364 ELSE b

\* unicode(password, encoding=str(code_page), errors='strict')
CodePageDecode(bytes) ==
    IF \E i \in 1..Len(bytes) : bytes[i] \in CodePageUndefined
    THEN [ok |-> FALSE, text |-> <<>>]
    ELSE [ok |-> TRUE, text |-> [i \in 1..Len(bytes) |-> CodePageChar(bytes[i])]]

\* _make_blob(password): text is returned as it is; a byte string is decoded
\* under the code page that _kernel32._GetACP() reports.
_make_blob(password) ==
    IF password.t = "str"
    THEN [ok |-> TRUE, text |-> password.v, acp |-> FALSE]
    ELSE LET d == CodePageDecode(password.v)
         IN  [ok |-> d.ok, text |-> d.text, acp |-> TRUE]

\* Mutant: the terminator of the unicode buffer is counted in the size.
BlobSizeOf_WithTerminator(blob_data) == sizeof(blob_data)

\* CredentialBlobSize as CredWrite computes it from the unicode buffer.
BlobSizeOf(blob_data) == sizeof(blob_data) - SizeofWchar

\* setattr(c_creds, key, credential[key]) for the keys other than the blob.
\* The integer fields are DWORDs; the values written here are within range.
SetField(c_creds, key, value) ==
    IF key \in IntKeys
    THEN [c_creds EXCEPT ![key] = value.v]
    ELSE [c_creds EXCEPT ![key] = ToLPWSTR(value.v)]

\* The two assignments CredWrite makes for the CredentialBlob key.
SetBlob(c_creds, text) ==
    LET blob_data == create_unicode_buffer(text)
    IN  [c_creds EXCEPT !.CredentialBlobSize = BlobSizeOf(blob_data),
                        !.CredentialBlob = UnitsToBytes(blob_data)]

RECURSIVE SetFields(_, _, _)
\* The loop of CredWrite over the supported keys other than the blob.
SetFields(c_creds, credential, keys) ==
    IF keys = {} THEN c_creds
    ELSE LET key == CHOOSE k \in keys : TRUE
             next == IF key \in DOMAIN credential
                     THEN SetField(c_creds, key, credential[key])
                     ELSE c_creds
         IN  SetFields(next, credential, keys \ {key})

\* The native record CredWrite builds from a credential whose keys are all
\* supported.  ok is FALSE when the secret cannot be decoded; acp tells
\* whether the code page was queried.
BuildRecord(credential) ==
    LET base == SetFields(ZeroedCREDENTIAL, credential,
                          SUPPORTED_CREDKEYS \ {"CredentialBlob"})
    IN  IF "CredentialBlob" \in DOMAIN credential
        THEN LET b == _make_blob(credential["CredentialBlob"])
             IN  [ok |-> b.ok, acp |-> b.acp,
                  rec |-> IF b.ok THEN SetBlob(base, b.text) ELSE base]
        ELSE [ok |-> TRUE, acp |-> FALSE, rec |-> base]

\* _cred_as_dict(c_creds): every supported key, copied out of the record.
_cred_as_dict(c_creds) ==
    [ key \in SUPPORTED_CREDKEYS |->
        IF key = "CredentialBlob"
        THEN PyBytes_FromStringAndSize(c_creds.CredentialBlob,
                                       c_creds.CredentialBlobSize)
        ELSE IF key \in IntKeys THEN PyInt(c_creds[key])
        ELSE FromLPWSTR(c_creds[key]) ]

----------------------------------------------------------------------------
(* Outcomes of a call *)

NoError == [type |-> "", origin |-> "", winerror |-> "", context |-> ""]

Return(v) == [kind |-> "return", value |-> v, error |-> NoError]

\* An exception leaving the call.  origin names the step that raised it,
\* context the origin of the exception that was in flight when it was raised.
Raise(type, origin, winerror, context) ==
    [kind |-> "raise", value |-> PyNone,
     error |-> [type |-> type, origin |-> origin, winerror |-> winerror,
                context |-> context]]

\* with pywin32error(): a failed native call leaves as pywintypes.error
\* carrying the native error code.
PlatformError(code) == Raise("pywintypes.error", "native", code, "")

Event(name, index) == [ev |-> name, idx |-> index]

NoFaults == [decode |-> 0, release |-> FALSE]

----------------------------------------------------------------------------
(* The native credential store *)

SameKey(rec, name, type) == rec.TargetName = name /\ rec.Type = type

IndexOf(st, name, type) ==
    IF \E i \in 1..Len(st) : SameKey(st[i], name, type)
    THEN CHOOSE i \in 1..Len(st) : SameKey(st[i], name, type)
    ELSE 0

\* The record the store keeps: the fields and CredentialBlobSize bytes of
\* the blob.
StoredCopy(rec) ==
    [rec EXCEPT !.CredentialBlob = SubSeq(rec.CredentialBlob, 1,
                                          rec.CredentialBlobSize)]

\* native_write: a record without a target name or a type is refused; a
\* record of a known (target name, type) replaces the stored one in place,
\* another one is added at the end.
native_write(st, rec) ==
    IF rec.TargetName = NULL \/ rec.Type = 0
    THEN [ok |-> FALSE, code |-> "ERROR_INVALID_PARAMETER", store |-> st]
    ELSE LET i == IndexOf(st, rec.TargetName, rec.Type)
         IN  [ok |-> TRUE, code |-> "",
              store |-> IF i = 0 THEN Append(st, StoredCopy(rec))
                        ELSE [st EXCEPT ![i] = StoredCopy(rec)]]

\* native_read: the record of (target name, type), or "not found".
native_read(st, TargetName, Type) ==
    LET i == IndexOf(st, ToLPWSTR(TargetName), Type)
    IN  IF i = 0
        THEN [ok |-> FALSE, code |-> "ERROR_NOT_FOUND", records |-> <<>>]
        ELSE [ok |-> TRUE, code |-> "", records |-> << st[i] >>]

\* native_delete: removes the record of (target name, type), or "not found".
native_delete(st, TargetName, Type) ==
    LET i == IndexOf(st, ToLPWSTR(TargetName), Type)
    IN  IF i = 0
        THEN [ok |-> FALSE, code |-> "ERROR_NOT_FOUND", store |-> st]
        ELSE [ok |-> TRUE, code |-> "",
              store |-> SubSeq(st, 1, i - 1) \o SubSeq(st, i + 1, Len(st))]

\* A filter is None or a name prefix followed by an asterisk.
Matches(rec, Filter) ==
    \/ Filter = PyNone
    \/ LET prefix == Utf16Units(SubSeq(Filter.v, 1, Len(Filter.v) - 1))
       IN  /\ Len(rec.TargetName) > Len(prefix)
           /\ SubSeq(rec.TargetName, 1, Len(prefix)) = prefix

RECURSIVE SelectMatching(_, _)
SelectMatching(st, Filter) ==
    IF st = <<>> THEN <<>>
    ELSE (IF Matches(Head(st), Filter) THEN << Head(st) >> ELSE <<>>)
            \o SelectMatching(Tail(st), Filter)

\* native_enumerate: the matching records of every type in store order, or
\* "not found" when there is none.
native_enumerate(st, Filter, Flags) ==
    LET found == SelectMatching(st, Filter)
    IN  IF found = <<>>
        THEN [ok |-> FALSE, code |-> "ERROR_NOT_FOUND", records |-> <<>>]
        ELSE [ok |-> TRUE, code |-> "", records |-> found]

----------------------------------------------------------------------------
(* The four operations.  Each is computed as a run: the native primitives  *)
(* and native-memory accesses in program order, the outcome, the store     *)
(* afterwards and the failures that occurred.                              *)

Run(events, result, st, f) ==
    [log |-> events, outcome |-> result, store |-> st, faults |-> f]

\* CredWrite(credential, flag)
CredWriteRun(st, credential, flag) ==
    LET unsupported == (DOMAIN credential) \ SUPPORTED_CREDKEYS
    IN  IF unsupported # {}
        THEN Run(<<>>, Raise("ValueError", "validate", "", ""), st, NoFaults)
        ELSE IF flag # 0
        THEN Run(<<>>, Raise("ValueError", "validate", "", ""), st, NoFaults)
        ELSE LET b == BuildRecord(credential)
                 acp == IF b.acp THEN << Event("_GetACP", 0) >> ELSE <<>>
             IN  IF ~b.ok
                 THEN Run(acp, Raise("UnicodeDecodeError", "encode", "", ""),
                          st, NoFaults)
                 ELSE LET w == native_write(st, b.rec)
                          events == acp \o << Event("_CredWrite", 0) >>
                      IN  IF w.ok
                          THEN Run(events, Return(PyNone), w.store, NoFaults)
                          ELSE Run(events, PlatformError(w.code), st, NoFaults)

RECURSIVE DecodeFrom(_, _, _)
\* [_cred_as_dict(c_ppcreds[index].contents) for index in range(count)],
\* from index on.  fault is the index of the element whose decoding raises
\* (0: none); the comprehension stops there.
DecodeFrom(records, index, fault) ==
    IF index > Len(records)
    THEN [log |-> <<>>, creds |-> <<>>, failedAt |-> 0]
    ELSE LET here == << Event("contents", index),
                        Event("_cred_as_dict", index) >>
         IN  IF index = fault
             THEN [log |-> here, creds |-> <<>>, failedAt |-> index]
             ELSE LET rest == DecodeFrom(records, index + 1, fault)
                  IN  [log |-> here \o rest.log,
                       creds |-> IF rest.failedAt = 0
                                 THEN << _cred_as_dict(records[index]) >>
                                          \o rest.creds
                                 ELSE <<>>,
                       failedAt |-> rest.failedAt]

\* The outcome of a try block that decodes: the value, or the decode error.
DecodeOutcome(d, value) ==
    IF d.failedAt = 0 THEN Return(value)
    ELSE Raise("MemoryError", "decode", "", "")

\* Mutant: the release follows the body instead of being its finally
\* clause, so a body that raises skips it.
TryFinallyFree_OnSuccessOnly(bodyLog, bodyOutcome, failedAt, freeFails) ==
    IF bodyOutcome.kind = "raise"
    THEN [log |-> bodyLog, outcome |-> bodyOutcome,
          faults |-> [decode |-> failedAt, release |-> FALSE]]
    ELSE [log |-> bodyLog \o << Event("_CredFree", 0) >>,
          outcome |-> IF freeFails
                      THEN Raise("OSError", "release", "", "")
                      ELSE bodyOutcome,
          faults |-> [decode |-> failedAt, release |-> freeFails]]

\* Mutant: the result is released before it is decoded.
TryFinallyFree_ReleaseFirst(bodyLog, bodyOutcome, failedAt, freeFails) ==
    [log |-> << Event("_CredFree", 0) >> \o bodyLog,
     outcome |-> IF freeFails
                 THEN Raise("OSError", "release", "", bodyOutcome.error.origin)
                 ELSE bodyOutcome,
     faults |-> [decode |-> failedAt, release |-> freeFails]]

\* try: <body> finally: _advapi32._CredFree(ptr).  The release runs on
\* every exit of the body; an exception it raises leaves the statement in
\* place of the body's outcome, with the body's exception as its context.
TryFinallyFree(bodyLog, bodyOutcome, failedAt, freeFails) ==
    [log |-> bodyLog \o << Event("_CredFree", 0) >>,
     outcome |-> IF freeFails
                 THEN Raise("OSError", "release", "", bodyOutcome.error.origin)
                 ELSE bodyOutcome,
     faults |-> [decode |-> failedAt, release |-> freeFails]]

\* Mutant: a target that is not found yields None, as the docstring of
\* CredRead has it.
CredReadRun_NoneWhenMissing(st, TargetName, Type, fault, freeFails) ==
    IF ~(Type = CRED_TYPE_GENERIC)
    THEN Run(<<>>, Raise("ValueError", "validate", "", ""), st, NoFaults)
    ELSE LET r == native_read(st, TargetName, Type)
             call == << Event("_CredRead", 0) >>
         IN  IF ~r.ok
             THEN Run(call, Return(PyNone), st, NoFaults)
             ELSE LET d == DecodeFrom(r.records, 1, fault)
                      body == DecodeOutcome(d,
                                  IF d.failedAt = 0 THEN PyDict(d.creds[1])
                                  ELSE PyNone)
                      t == TryFinallyFree(d.log, body, d.failedAt, freeFails)
                  IN  Run(call \o t.log, t.outcome, st, t.faults)

\* CredRead(TargetName, Type)
CredReadRun(st, TargetName, Type, fault, freeFails) ==
    IF ~(Type = CRED_TYPE_GENERIC)
    THEN Run(<<>>, Raise("ValueError", "validate", "", ""), st, NoFaults)
    ELSE LET r == native_read(st, TargetName, Type)
             call == << Event("_CredRead", 0) >>
         IN  IF ~r.ok
             THEN Run(call, PlatformError(r.code), st, NoFaults)
             ELSE LET d == DecodeFrom(r.records, 1, fault)
                      body == DecodeOutcome(d,
                                  IF d.failedAt = 0 THEN PyDict(d.creds[1])
                                  ELSE PyNone)
                      t == TryFinallyFree(d.log, body, d.failedAt, freeFails)
                  IN  Run(call \o t.log, t.outcome, st, t.faults)

\* Mutant: the Type is checked after the native delete.
CredDeleteRun_NativeFirst(st, TargetName, Type) ==
    LET r == native_delete(st, TargetName, Type)
        call == << Event("_CredDelete", 0) >>
    IN  IF ~(Type = CRED_TYPE_GENERIC)
        THEN Run(call, Raise("ValueError", "validate", "", ""), r.store,
                 NoFaults)
        ELSE IF r.ok
        THEN Run(call, Return(PyNone), r.store, NoFaults)
        ELSE Run(call, PlatformError(r.code), st, NoFaults)

\* CredDelete(TargetName, Type)
CredDeleteRun(st, TargetName, Type) ==
    IF ~(Type = CRED_TYPE_GENERIC)
    THEN Run(<<>>, Raise("ValueError", "validate", "", ""), st, NoFaults)
    ELSE LET r == native_delete(st, TargetName, Type)
             call == << Event("_CredDelete", 0) >>
         IN  IF r.ok
             THEN Run(call, Return(PyNone), r.store, NoFaults)
             ELSE Run(call, PlatformError(r.code), st, NoFaults)

\* Mutant: every credential with a Type at or above the generic one passes.
is_generic_AtLeast(cred) == cred["Type"].v >= CRED_TYPE_GENERIC

\* is_generic = lambda cred: cred['Type'] == CRED_TYPE_GENERIC
is_generic(cred) == cred["Type"] = PyInt(CRED_TYPE_GENERIC)

RECURSIVE FilterGeneric(_)
\* list(filter(is_generic, creds))
FilterGeneric(creds) ==
    IF creds = <<>> THEN <<>>
    ELSE (IF is_generic(Head(creds)) THEN << Head(creds) >> ELSE <<>>)
            \o FilterGeneric(Tail(creds))

\* Mutant: the native call sits inside the try block, so the release also
\* runs when the call failed.
CredEnumerateRun_FreeOnFailure(st, Filter, Flags, fault, freeFails) ==
    LET r == native_enumerate(st, Filter, Flags)
        call == << Event("_CredEnumerate", 0) >>
    IN  IF ~r.ok
        THEN LET t == TryFinallyFree(<<>>, PlatformError(r.code), 0, freeFails)
             IN  Run(call \o t.log, t.outcome, st, t.faults)
        ELSE LET d == DecodeFrom(r.records, 1, fault)
                 body == DecodeOutcome(d, PyNone)
                 t == TryFinallyFree(d.log, body, d.failedAt, freeFails)
             IN  Run(call \o t.log,
                     IF t.outcome.kind = "return"
                     THEN Return(PyList(FilterGeneric(d.creds)))
                     ELSE t.outcome,
                     st, t.faults)

\* CredEnumerate(Filter, Flags)
CredEnumerateRun(st, Filter, Flags, fault, freeFails) ==
    LET r == native_enumerate(st, Filter, Flags)
        call == << Event("_CredEnumerate", 0) >>
    IN  IF ~r.ok
        THEN Run(call, PlatformError(r.code), st, NoFaults)
        ELSE LET d == DecodeFrom(r.records, 1, fault)
                 body == DecodeOutcome(d, PyNone)
                 t == TryFinallyFree(d.log, body, d.failedAt, freeFails)
             IN  Run(call \o t.log,
                     IF t.outcome.kind = "return"
                     THEN Return(PyList(FilterGeneric(d.creds)))
                     ELSE t.outcome,
                     st, t.faults)

----------------------------------------------------------------------------
(* Inputs *)

Targets == { <<97>>, <<98>> }                 \* "a", "b"
Types == { CRED_TYPE_GENERIC, 2 }             \* generic, domain password
Filters == { PyNone, PyStr(<<97, 42>>) }      \* None, "a*"

\* The values a caller gives to the keys of a credential.
Template(type, name, secret) ==
    [ key \in SUPPORTED_CREDKEYS \cup {"Bogus"} |->
        CASE key = "Type" -> PyInt(type)
          [] key = "TargetName" -> PyStr(name)
          [] key = "Persist" -> PyInt(CRED_PERSIST_ENTERPRISE)
          [] key = "UserName" -> PyStr(<<117>>)
          [] key = "CredentialBlob" -> secret
          [] key = "Comment" -> PyStr(<<99, 8364>>)
          [] OTHER -> PyInt(1) ]

\* The dict with the given keys.
Credential(keys, type, name, secret) ==
    [ key \in keys |-> Template(type, name, secret)[key] ]

\* The credentials of the store specification, as (keys, secret):
\*   a text secret "A" with the keys a generic credential needs;
\*   every supported key, with the secret as the bytes 0xE4;
\*   the bytes 0x81, which the code page cannot decode;
\*   a credential without a Type, which the platform refuses;
\*   a credential with a key outside the supported set.
Shapes ==
    { << {"Type", "TargetName", "CredentialBlob"}, PyStr(<<65>>) >>,
      << SUPPORTED_CREDKEYS, PyBytes(<<228>>) >>,
      << {"Type", "TargetName", "CredentialBlob"}, PyBytes(<<129>>) >>,
      << {"TargetName", "CredentialBlob"}, PyStr(<<65>>) >>,
      << {"Type", "TargetName", "CredentialBlob", "Bogus"}, PyStr(<<65>>) >> }

Credentials ==
    { Credential(shape[1], type, name, shape[2]) :
        shape \in Shapes, type \in Types, name \in Targets }

\* Characters of the secrets of the codec specification: NUL, a Latin-1
\* letter and a character outside the BMP.
SecretChars == { 0, 228, 128512 }

TextsUpTo(n) == UNION { [1..k -> SecretChars] : k \in 0..n }

\* Target names of the codec specification: "a" and a name with a
\* character outside the BMP.
RoundTripTargets == { <<97>>, <<128273, 98>> }

\* The keys a round-trip credential has besides Type, TargetName and
\* CredentialBlob.
OptionalKeys ==
    { {}, {"Persist"}, {"UserName", "Comment"},
      {"Persist", "UserName", "Comment"} }

RoundTripCredentials ==
    { Credential({"Type", "TargetName", "CredentialBlob"} \cup optional, type,
                 name, PyStr(text)) :
        optional \in OptionalKeys,
        type \in Types, name \in RoundTripTargets,
        text \in TextsUpTo(MaxSecretLen) }

----------------------------------------------------------------------------
(* The state machine *)

Init ==
    /\ store = <<>>
    /\ op = ""
    /\ args = <<>>
    /\ outcome = Return(PyNone)
    /\ log = <<>>
    /\ faults = NoFaults

Finish(name, arguments, run) ==
    /\ op' = name
    /\ args' = arguments
    /\ store' = run.store
    /\ outcome' = run.outcome
    /\ log' = run.log
    /\ faults' = run.faults

CredWrite(credential, flag) ==
    Finish("CredWrite", [credential |-> credential, flag |-> flag],
           CredWriteRun(store, credential, flag))

CredRead(TargetName, Type, fault, freeFails) ==
    Finish("CredRead", [TargetName |-> TargetName, Type |-> Type],
           CredReadRun(store, TargetName, Type, fault, freeFails))

CredDelete(TargetName, Type) ==
    Finish("CredDelete", [TargetName |-> TargetName, Type |-> Type],
           CredDeleteRun(store, TargetName, Type))

CredEnumerate(Filter, Flags, fault, freeFails) ==
    Finish("CredEnumerate", [Filter |-> Filter, Flags |-> Flags],
           CredEnumerateRun(store, Filter, Flags, fault, freeFails))

\* The store has room for the record of this credential.
Fits(credential, limit) ==
    \/ Len(store) < limit
    \/ /\ {"TargetName", "Type"} \subseteq DOMAIN credential
       /\ IndexOf(store, ToLPWSTR(credential["TargetName"].v),
                  credential["Type"].v) # 0

Write ==
    \E credential \in Credentials, flag \in {0, 1} :
        Fits(credential, MaxStore) /\ CredWrite(credential, flag)

Read ==
    \E name \in Targets, type \in Types, fault \in 0..1, freeFails \in BOOLEAN :
        CredRead(name, type, fault, freeFails)

Delete ==
    \E name \in Targets, type \in Types : CredDelete(name, type)

Enumerate ==
    \E Filter \in Filters, fault \in 0..MaxStore, freeFails \in BOOLEAN :
        CredEnumerate(Filter, 0, fault, freeFails)

Next == Write \/ Read \/ Delete \/ Enumerate

Spec == Init /\ [][Next]_vars

\* The codec specification: one stored credential at a time, written from
\* the round-trip credentials and read back.
WriteRoundTrip ==
    \E credential \in RoundTripCredentials :
        Fits(credential, 1) /\ CredWrite(credential, 0)

ReadRoundTrip ==
    \E name \in RoundTripTargets, fault \in 0..1, freeFails \in BOOLEAN :
        CredRead(name, CRED_TYPE_GENERIC, fault, freeFails)

DeleteRoundTrip ==
    \E name \in RoundTripTargets : CredDelete(name, CRED_TYPE_GENERIC)

NextCodec == WriteRoundTrip \/ ReadRoundTrip \/ DeleteRoundTrip

SpecCodec == Init /\ [][NextCodec]_vars

----------------------------------------------------------------------------
(* Properties *)

NativeEvents ==
    {"_CredWrite", "_CredRead", "_CredDelete", "_CredEnumerate", "_CredFree",
     "_GetACP"}

AccessEvents == {"contents", "_cred_as_dict"}

Positions(name) == { i \in 1..Len(log) : log[i].ev = name }

\* The last call is one that validation refuses.
FailsValidation ==
    \/ /\ op = "CredWrite"
       /\ \/ ~((DOMAIN args.credential) \subseteq SUPPORTED_CREDKEYS)
          \/ args.flag # 0
    \/ /\ op \in {"CredRead", "CredDelete"}
       /\ args.Type # CRED_TYPE_GENERIC

\* What the native read or enumerate primitive answers to the last call
\* (neither operation changes the store).
NativeAnswer ==
    IF op = "CredRead"
    THEN native_read(store, args.TargetName, args.Type)
    ELSE native_enumerate(store, args.Filter, args.Flags)

\* The last call is a read or an enumeration that reached the native
\* primitive.
ReachedNative ==
    \/ op = "CredRead" /\ args.Type = CRED_TYPE_GENERIC
    \/ op = "CredEnumerate"

NativeSucceeded == ReachedNative /\ NativeAnswer.ok

NativeFailed == ReachedNative /\ ~NativeAnswer.ok

\* C1: a call that fails validation raises the validation error before any
\* native primitive is invoked: its log of native calls is empty and the
\* store is the one before the call.
C1_ValidationBeforeNative ==
    [][ FailsValidation' =>
          /\ outcome'.kind = "raise"
          /\ outcome'.error.origin = "validate"
          /\ log' = <<>>
          /\ store' = store ]_vars

C1_Witness ==
    /\ FailsValidation
    /\ op = "CredDelete"
    /\ IndexOf(store, ToLPWSTR(args.TargetName), args.Type) # 0
    /\ outcome.error.type = "ValueError"

\* C2: when the native read or enumerate primitive succeeds, the result
\* memory is released by exactly one _CredFree call, the last native step
\* of the call, whether decoding succeeds or fails at any index.
C2_ReleasedExactlyOnce ==
    NativeSucceeded =>
        /\ Cardinality(Positions("_CredFree")) = 1
        /\ log[Len(log)].ev = "_CredFree"

C2_Witness ==
    /\ op = "CredEnumerate"
    /\ NativeSucceeded
    /\ Len(NativeAnswer.records) = 3
    /\ faults.decode = 2
    /\ outcome.kind = "raise"
    /\ Cardinality(Positions("_CredFree")) = 1

\* C3: when decoding fails and the release fails too, the error that
\* reaches the caller is the decode error.
C3_ReleaseDoesNotMask ==
    (ReachedNative /\ faults.decode # 0 /\ faults.release) =>
        (outcome.kind = "raise" /\ outcome.error.origin = "decode")

\* The entries of the native array that are generic credentials.
GenericIndexes(records) ==
    { i \in 1..Len(records) : records[i].Type = CRED_TYPE_GENERIC }

\* C4: a successful CredEnumerate returns exactly the entries of the native
\* array whose Type is CRED_TYPE_GENERIC, in the order of the native array.
C4_EnumerateFiltersGeneric ==
    (op = "CredEnumerate" /\ outcome.kind = "return") =>
        LET records == NativeAnswer.records
            kept == GenericIndexes(records)
            result == outcome.value.v
        IN  /\ outcome.value.t = "list"
            /\ Len(result) = Cardinality(kept)
            /\ \A i \in kept :
                 result[Cardinality({ j \in kept : j <= i })]
                     = _cred_as_dict(records[i])

C4_Witness ==
    /\ op = "CredEnumerate"
    /\ outcome.kind = "return"
    /\ Len(NativeAnswer.records) = 3
    /\ GenericIndexes(NativeAnswer.records) = {1, 3}
    /\ Len(outcome.value.v) = 2
    /\ outcome.value.v[1] # outcome.value.v[2]

\* The last call is a generic CredRead of a target that is not in the store.
ReadOfMissing ==
    /\ op = "CredRead"
    /\ args.Type = CRED_TYPE_GENERIC
    /\ \A i \in 1..Len(store) :
         ~(store[i].TargetName = ToLPWSTR(args.TargetName)
           /\ store[i].Type = args.Type)

C6_ReadMissingReturnsNone ==
    /\ ReadOfMissing => outcome = Return(PyNone)
    /\ (op = "CredRead" /\ NativeSucceeded /\ faults = NoFaults) =>
          (outcome.kind = "return" /\ outcome.value.t = "dict")

RECURSIVE Utf16le(_)
\* The UTF-16LE encoding of a text, byte by byte.
Utf16le(text) ==
    IF text = <<>> THEN <<>>
    ELSE LET c == Head(text)
             v == c - 65536
             high == 55296 + (v \div 1024)
             low == 56320 + (v % 1024)
         IN  (IF c < 65536
              THEN << c % 256, c \div 256 >>
              ELSE << high % 256, high \div 256, low % 256, low \div 256 >>)
                 \o Utf16le(Tail(text))

InBMP(text) == \A i \in 1..Len(text) : text[i] < 65536

\* The record the store holds for the key of a credential.
StoredFor(credential) ==
    LET name == ToLPWSTR(credential["TargetName"].v)
        type == IF "Type" \in DOMAIN credential THEN credential["Type"].v ELSE 0
    IN  { store[i] : i \in { j \in 1..Len(store) :
                               /\ store[j].TargetName = name
                               /\ store[j].Type = type } }

\* decoded is the round trip of credential, kept in a record whose blob
\* size is size: every field of the credential is reproduced, the secret
\* as its UTF-16LE bytes, and the size is the length of these bytes.
IsRoundTrip(credential, decoded, size) ==
    LET secret == credential["CredentialBlob"].v
    IN  /\ \A key \in (DOMAIN credential) \ {"CredentialBlob"} :
             decoded[key] = credential[key]
        /\ decoded["CredentialBlob"] = PyBytes(Utf16le(secret))
        /\ size = Len(Utf16le(secret))
        /\ InBMP(secret) => size = 2 * Len(secret)

\* C7: decoding the record that a successful CredWrite of a credential
\* with a text secret stores reproduces every field of the credential,
\* the secret as its UTF-16LE bytes with CredentialBlobSize their exact
\* length; and a CredRead that succeeds returns this decoding for every
\* credential whose write produces the record it finds.
C7_RoundTrip ==
    /\ (op = "CredWrite" /\ outcome.kind = "return"
          /\ args.credential["CredentialBlob"].t = "str") =>
          /\ StoredFor(args.credential) # {}
          /\ \A rec \in StoredFor(args.credential) :
                IsRoundTrip(args.credential, _cred_as_dict(rec),
                            rec.CredentialBlobSize)
    /\ (op = "CredRead" /\ outcome.kind = "return") =>
          \A credential \in RoundTripCredentials :
             \A rec \in StoredFor(credential) :
                (rec = StoredCopy(BuildRecord(credential).rec)
                   /\ credential["TargetName"].v = args.TargetName
                   /\ rec.Type = args.Type) =>
                IsRoundTrip(credential, outcome.value.v,
                            rec.CredentialBlobSize)

\* Read back: a secret of a NUL and a character outside the BMP, under a
\* target name outside the BMP, written with a comment and no Persist.
C7_Witness ==
    /\ op = "CredRead"
    /\ outcome.kind = "return"
    /\ args.TargetName = <<128273, 98>>
    /\ outcome.value.v["CredentialBlob"] = PyBytes(<<0, 0, 61, 216, 0, 222>>)
    /\ outcome.value.v["Persist"] = PyInt(0)
    /\ outcome.value.v["Comment"] = PyStr(<<99, 8364>>)

\* The first failure of the last call, from what happened in it.
FirstFailure ==
    IF FailsValidation THEN "validate"
    ELSE IF op = "CredWrite" /\ "_CredWrite" \notin { log[i].ev : i \in 1..Len(log) }
    THEN "encode"
    ELSE IF faults.decode # 0 THEN "decode"
    ELSE IF faults.release THEN "release"
    ELSE "native"

FullyPopulated(value) ==
    CASE value.t = "dict" -> DOMAIN value.v = SUPPORTED_CREDKEYS
      [] value.t = "list" ->
            \A i \in 1..Len(value.v) : DOMAIN value.v[i] = SUPPORTED_CREDKEYS
      [] OTHER -> value = PyNone

\* C8: every call either returns a fully populated result or raises one
\* error, the one of the first failure of the call; a call that raises
\* returns nothing.
C8_ResultOrFirstError ==
    (op # "") =>
        \/ /\ outcome.kind = "return"
           /\ outcome.error = NoError
           /\ FullyPopulated(outcome.value)
        \/ /\ outcome.kind = "raise"
           /\ outcome.value = PyNone
           /\ outcome.error.origin = FirstFailure

\* C9: in CredRead and CredEnumerate every access to the native result
\* precedes the release of it: no access follows _CredFree, and when no
\* decode step fails every element of the native result has been
\* dereferenced and decoded by then.
C9_AccessBeforeRelease ==
    NativeSucceeded =>
        /\ \A i \in Positions("_CredFree") :
             \A j \in 1..Len(log) :
                log[j].ev \in AccessEvents => j < i
        /\ faults.decode = 0 =>
             \A k \in 1..Len(NativeAnswer.records) :
                \A name \in AccessEvents :
                   \E j \in 1..Len(log) : log[j] = Event(name, k)

C9_Witness ==
    /\ op = "CredEnumerate"
    /\ NativeSucceeded
    /\ Len(NativeAnswer.records) = 2
    /\ faults = NoFaults
    /\ log[Len(log)].ev = "_CredFree"
    /\ log[Len(log) - 1] = Event("_cred_as_dict", 2)

====
